---------------------------- MODULE Spec2Model ----------------------------
(***************************************************************************)
(* A model of luaixp.c, the Lua binding over libixp: the line iterator     *)
(* (iread) with its SIGALRM timeout protocol, the directory iterator       *)
(* (idir), the status projection (build_modestr) and the one-shot          *)
(* operations (write, read, create) with the handles they own.             *)
(*                                                                         *)
(* Conventions                                                             *)
(*  - a C buffer is a sequence of bytes, index 1 is offset 0;              *)
(*  - a byte that malloc left uninitialized is UNINIT until it is read,    *)
(*    and is then any byte of Garbage (the value read stays in memory);    *)
(*  - a read past the end of an allocation is undefined: the byte found    *)
(*    there is NUL, NL, or the access faults ("fault");                    *)
(*  - a size_t field holds the integer v that stands for v mod 2^64, so    *)
(*    a negative v is a size_t that has wrapped around;                    *)
(*  - an IxpCFid* is "NULL" or "fid"; what the transport knows of the    *)
(*    handle behind it ("none", "open", "closed") is in fids.              *)
(***************************************************************************)
EXTENDS Integers, Sequences, FiniteSets, TLC

VARIABLES
    \* ---- line iterator (struct l_ixp_iread_s and the in-flight call) ----
    ctx,        \* struct l_ixp_iread_s: fid, buf, buf_pos, buf_len, buf_size
    ud,         \* the iread userdata: "none", "live", "orphan", "collected"
    iounit,     \* fid->iounit of the remote file the line iterator opens
    pc,         \* position of l_ixp_iread_iter: "idle", "ixp_read", "fault"
    L,          \* the Lua stack of the in-flight l_ixp_iread_iter call
    cur,        \* the in-flight (or last finished) call: C locals and its log
    sig,        \* process signal state: alarm, SIGALRM handler, the global
    remote,     \* the remote file behind the line iterator's handle
    wire,       \* the results the handle's reads have returned so far
    out,        \* the results next() has returned so far
    fids,       \* the transport's handles, by owner: "none", "open", "closed"
    faults,     \* the misuse the transport has seen
    \* ---- directory iterator ----
    dctx,       \* struct l_ixp_idir_s: fid, buf, m (pos, end)
    dud,        \* the idir userdata: "none", "live", "orphan", "collected"
    dremote,    \* the remote directory behind the directory iterator's handle
    dwire,      \* the reads the directory handle has returned so far
    dout,       \* the results the directory iterator has returned so far
    \* ---- one-shot operations ----
    op,         \* the running (or last finished) write/read/create call
    \* ---- status projection ----
    st          \* the IxpStat being projected and its modestr

vars == <<ctx, ud, iounit, pc, L, cur, sig, remote, wire, out, fids, faults,
          dctx, dud, dremote, dwire, dout, op, st>>

ireadVars == <<ctx, ud, iounit, pc, L, cur, sig, remote, wire, out>>
idirVars  == <<dctx, dud, dremote, dwire, dout>>

----------------------------------------------------------------------------
(* Bounds of the model *)

MaxBytes == 4       \* data bytes one line-iterator handle delivers in all
MaxReads == 2       \* reads one line-iterator handle completes
MaxCalls == 4       \* next() calls on one line iterator
IoUnit   == 4       \* the iounit of the line iterator's handle
MaxDirReads == 2    \* reads one directory handle completes
DirIoUnit == 4      \* the iounit of the directory handle, in bytes
MaxStat  == 2       \* the longest encoded status record, in bytes
MaxMode  == 1023    \* the largest value of the low bits of a stat mode
MaxData  == 3       \* the longest data a write or create is given
OpIoUnit == 3       \* the largest iounit of a one-shot operation's handle

(* Program constants *)

EINTR == 4
StatBufSize == 32   \* static char buf[32] of pushstat
ReadCeiling == 4096 \* the size l_ixp_read grows its buffer to

----------------------------------------------------------------------------
(* Bytes *)

NUL    == "NUL"
NL     == "NL"
UNINIT == "UNINIT"

DataByte == {"a", NL, NUL}          \* what a handle delivers
Garbage  == {"x", NL, NUL}          \* what uninitialized memory holds

(* All sequences over S of length exactly n, and of length 1..n *)
RECURSIVE SeqsOfLen(_, _)
SeqsOfLen(S, n) ==
    IF n = 0 THEN {<<>>}
    ELSE {Append(s, b) : s \in SeqsOfLen(S, n - 1), b \in S}

SeqsUpTo(S, n) == UNION {SeqsOfLen(S, k) : k \in 1..n}

RECURSIVE SumLen(_)
SumLen(rs) == IF rs = <<>> THEN 0 ELSE Len(Head(rs).data) + SumLen(Tail(rs))

RECURSIVE Flatten(_)
Flatten(ss) == IF ss = <<>> THEN <<>> ELSE Head(ss) \o Flatten(Tail(ss))

Min(a, b) == IF a < b THEN a ELSE b

----------------------------------------------------------------------------
(* Lua values and the stack *)

LNum(n) == [t |-> "number", v |-> n]
LFun(r) == [t |-> "function", v |-> r]   \* a Lua function returning the value r
LNil    == [t |-> "nil", v |-> 0]

\* luaL_optnumber (L, narg, d)
luaL_optnumber(stack, narg, d) ==
    IF narg > Len(stack) \/ stack[narg].t = "nil" THEN d ELSE stack[narg].v

\* luaL_checknumber (L, narg), of a number
luaL_checknumber(stack, narg) == stack[narg].v

\* lua_isfunction (L, idx)
lua_isfunction(stack, idx) ==
    idx <= Len(stack) /\ stack[idx].t = "function"

\* lua_call (L, 0, 1): calls the value on top of the stack with no
\* arguments; it is replaced by its one result.
lua_call_0_1(stack) ==
    LET f == stack[Len(stack)]
    IN  Append(SubSeq(stack, 1, Len(stack) - 1), f.v)

\* lua_pop (L, 1)
lua_pop_1(stack) == SubSeq(stack, 1, Len(stack) - 1)

\* The argument lists next() is called with.
CallArgs ==
    {<<>>, <<LNum(0)>>, <<LNum(2)>>}
    \cup {<<LNum(2), LFun(r)>> : r \in {LNum(5), LNum(0), LNil}}

----------------------------------------------------------------------------
(* The transport *)

Owners == {"iread", "idir", "op"}

\* ixp_open / ixp_create for owner who: the pointer returned, and the
\* handle the transport then holds
ixp_open(ok) == IF ok THEN "fid" ELSE "NULL"

ixp_open_fids(f, who, ok) == [f EXCEPT ![who] = IF ok THEN "open" ELSE "none"]

\* ixp_close (ptr) by owner who: the transport's handles after the call and
\* the misuse it saw (a null pointer, a handle already closed)
ixp_close_fids(f, ptr, who) ==
    IF ptr = "NULL" THEN f ELSE [f EXCEPT ![who] = "closed"]

ixp_close_faults(f, ptr, who) ==
    IF ptr = "NULL" THEN {<<"ixp_close(NULL)", who>>}
    ELSE IF f[who] # "open" THEN {<<"ixp_close twice", who>>}
    ELSE {}

\* One result of ixp_read (fid, buf, count): rc and the bytes stored.
Data(bytes) == [rc |-> Len(bytes), data |-> bytes]
EOF         == [rc |-> 0, data |-> <<>>]
ERR         == [rc |-> -1, data |-> <<>>]

\* What a read of up to count bytes can return on a handle that has
\* already returned the results w: the next result of a scripted file, or
\* else any result (data, end of file, error) within the bounds. A handle
\* with nothing to return blocks.
ReadResults(w, count) ==
    IF remote.scripted
    THEN IF Len(w) < Len(remote.script)
         THEN {remote.script[Len(w) + 1]} ELSE {}
    ELSE IF Len(w) < MaxReads
    THEN {Data(b) : b \in SeqsUpTo(DataByte, Min(count, MaxBytes - SumLen(w)))}
         \cup {EOF, ERR}
    ELSE {}

AnyFile == [scripted |-> FALSE, script |-> <<>>]

\* The handle of the reference scenario: "a\nbb\n", then "ccc", then 0.
Fixture == << Data(<<"a", NL, "b", "b", NL>>), Data(<<"c", "c", "c">>), EOF >>

----------------------------------------------------------------------------
(* Line iterator: l_ixp_iread *)

ZeroCtx == [fid |-> "NULL", has_buf |-> FALSE, buf |-> <<>>,
            buf_pos |-> 0, buf_len |-> 0, buf_size |-> 0]

\* No call in flight. In a call: its arguments, the C locals timeout and
\* sact2, and a log of the alarm() calls, expiries and callback calls.
NoCall == [args |-> <<>>, timeout |-> 0, sact2 |-> "SIG_DFL",
           armed |-> <<>>, expired |-> 0, cbcalls |-> 0]

NoSig == [alarm |-> 0, handler |-> "SIG_DFL", lua_state |-> "NULL"]

\* l_ixp_iread: the userdata is created and given its metatable before the
\* open, so a failed open leaves an orphan that the collector finalizes.
l_ixp_iread ==
    /\ ud = "none"
    /\ \E ok \in BOOLEAN :
          /\ ctx' = [ZeroCtx EXCEPT !.fid = ixp_open(ok)]
          /\ fids' = ixp_open_fids(fids, "iread", ok)
          /\ ud' = IF ok THEN "live" ELSE "orphan"
    /\ UNCHANGED <<iounit, pc, L, cur, sig, remote, wire, out, faults>>
    /\ UNCHANGED <<idirVars, op, st>>

\* strchr (s, '\n') from index i of mem: where it stops and on what.
RECURSIVE strchr_nl(_, _)
strchr_nl(mem, i) ==
    IF i > Len(mem)
    THEN {[mem |-> mem, at |-> i, hit |-> h] : h \in {NL, NUL, "fault"}}
    ELSE IF mem[i] = UNINIT
    THEN UNION {strchr_nl([mem EXCEPT ![i] = b], i) : b \in Garbage}
    ELSE IF mem[i] \in {NL, NUL}
    THEN {[mem |-> mem, at |-> i, hit |-> mem[i]]}
    ELSE strchr_nl(mem, i + 1)

\* What a call returns: "line" with the string pushed (nl: a newline was
\* found and stripped), "timeout", "done" (no value), "error" (pusherror),
\* or "fault" (the call faulted in an undefined access).
Res(t, s, nl) == [t |-> t, s |-> s, nl |-> nl]

\* What a call of the directory iterator returns: "stat" (the table of the
\* record called name, whole if every field of it was unpacked) or "done";
\* rd is the read the call made (0 if none).
DRes(t, name, whole, rd) == [t |-> t, name |-> name, whole |-> whole, rd |-> rd]

\* Lines 390-409: the scan of the buffer and the line it returns. Gives
\* the set of [ctx, res] the scan can end in.
ScanLine(c) ==
    LET s == c.buf_pos + 1
    IN  { IF o.hit = "fault"
          THEN [ctx |-> [c EXCEPT !.buf = o.mem], res |-> Res("fault", <<>>, FALSE)]
          ELSE IF o.hit = NUL
          THEN \* no match: push the string at s, mark the buffer empty
               [ctx |-> [c EXCEPT !.buf = o.mem, !.buf_len = 0],
                res |-> Res("line", SubSeq(o.mem, s, o.at - 1), FALSE)]
          ELSE \* a match at cr: *cr = 0, push s, advance by len
               LET len == (o.at - s) + 1
                   mem == IF o.at <= Len(o.mem)
                          THEN [o.mem EXCEPT ![o.at] = NUL] ELSE o.mem
               IN  [ctx |-> [c EXCEPT !.buf = mem,
                                      !.buf_pos = @ + len,
                                      !.buf_len = @ - len],
                    res |-> Res("line", SubSeq(o.mem, s, o.at - 1), TRUE)]
        : o \in strchr_nl(c.buf, s) }

\* The call returns res, rd being the read it made (0 if none): the stack
\* is gone and the result is logged; cur keeps the locals and the log of a
\* call that made a read, until the next call.
Return(c, res, rd) ==
    /\ ctx' = c
    /\ pc' = IF res.t = "fault" THEN "fault" ELSE "idle"
    /\ L' = <<>>
    /\ cur' = IF pc = "ixp_read" THEN cur ELSE NoCall
    /\ out' = Append(out, [t |-> res.t, s |-> res.s, nl |-> res.nl, rd |-> rd])

\* l_ixp_iread_iter, from entry to the blocking ixp_read (or to its return
\* when the buffer still holds data), called with one of Args.
iread_iter_enter(Args) ==
    /\ ud = "live" /\ pc = "idle" /\ Len(out) < MaxCalls
    /\ \E args \in Args, mallocOk \in BOOLEAN :
         LET timeout == luaL_optnumber(args, 1, 0)
             call == [NoCall EXCEPT !.args = args, !.timeout = timeout]
             c1 == IF ~ctx.has_buf
                   THEN [ctx EXCEPT !.has_buf = TRUE,
                                    !.buf = [i \in 1..iounit |-> UNINIT],
                                    !.buf_size = iounit,
                                    !.buf_len = 0]
                   ELSE ctx
         IN  IF ~ctx.has_buf /\ ~mallocOk
             THEN \* pusherror "count not allocate memory"
                  /\ Return(ctx, Res("error", <<>>, FALSE), 0)
                  /\ UNCHANGED <<sig, wire>>
             ELSE IF c1.buf_len = 0
             THEN /\ ctx' = [c1 EXCEPT !.buf_pos = 0]
                  /\ pc' = "ixp_read"
                  /\ L' = args
                  /\ IF timeout > 0
                     THEN /\ sig' = [alarm |-> timeout,
                                     handler |-> "l_ixp_iread_catcher",
                                     lua_state |-> "L"]
                          /\ cur' = [call EXCEPT !.sact2 = sig.handler,
                                                 !.armed = <<timeout>>]
                     ELSE /\ sig' = sig
                          /\ cur' = call
                  /\ UNCHANGED <<wire, out>>
             ELSE /\ mallocOk
                  /\ \E r \in ScanLine(c1) : Return(r.ctx, r.res, 0)
                  /\ UNCHANGED <<sig, wire>>
    /\ UNCHANGED <<ud, iounit, remote, fids, faults>>
    /\ UNCHANGED <<idirVars, op, st>>

\* next(...) with any of the argument lists
l_ixp_iread_iter == iread_iter_enter(CallArgs)

\* next() with no timeout: no argument, a zero, or the nils of a generic for
NoTimeoutArgs == {<<>>, <<LNum(0)>>, <<LNil, LNil>>}

l_ixp_iread_iter_plain == iread_iter_enter(NoTimeoutArgs)

\* l_ixp_iread_catcher: SIGALRM is delivered while ixp_read blocks.
l_ixp_iread_catcher ==
    /\ pc = "ixp_read" /\ sig.alarm > 0
    /\ LET timeout == luaL_optnumber(L, 1, 0)
           rc == lua_isfunction(L, 2)
       IN  IF sig.handler = "l_ixp_iread_catcher" /\ sig.lua_state = "L"
              /\ timeout > 0 /\ rc
           THEN LET L1 == lua_call_0_1(L)
                    new_timeout == luaL_checknumber(L1, 1)
                IN  /\ L' = lua_pop_1(L1)
                    /\ sig' = [sig EXCEPT !.alarm = new_timeout]
                    /\ cur' = [cur EXCEPT !.expired = @ + 1,
                                          !.cbcalls = @ + 1,
                                          !.armed = Append(@, new_timeout)]
           ELSE /\ L' = L
                /\ sig' = [sig EXCEPT !.alarm = 0]
                /\ cur' = [cur EXCEPT !.expired = @ + 1]
    /\ UNCHANGED <<ctx, ud, iounit, pc, remote, wire, out, fids, faults>>
    /\ UNCHANGED <<idirVars, op, st>>

\* (lines 368-373 without the sigaction that restores sact2)
Disarm_no_restore(s, timeout, sact2) ==
    IF timeout > 0
    THEN [alarm |-> 0, handler |-> s.handler, lua_state |-> "NULL"]
    ELSE s

\* Lines 368-373: alarm (0); l_ixp_iread_lua_state = NULL; sigaction
\* (SIGALRM, &sact2, NULL), if the call armed a timeout
Disarm(s, timeout, sact2) ==
    IF timeout > 0
    THEN [alarm |-> 0, handler |-> sact2, lua_state |-> "NULL"]
    ELSE s

\* memcpy of the bytes ixp_read stored at the start of buf
Store(mem, bytes) ==
    [i \in 1..Len(mem) |-> IF i <= Len(bytes) THEN bytes[i] ELSE mem[i]]

\* l_ixp_iread_iter, from the return of ixp_read to the return of the call.
ixp_read_returns ==
    /\ pc = "ixp_read"
    /\ \E r \in ReadResults(wire, ctx.buf_size) :
         LET rc == r.rc
             c1 == [ctx EXCEPT !.buf = Store(@, r.data)]
             rd == Len(wire) + 1
         IN  /\ wire' = Append(wire, r)
             /\ sig' = Disarm(sig, cur.timeout, cur.sact2)
             /\ IF rc = EINTR
                THEN Return(c1, Res("timeout", <<"timeout">>, FALSE), rd)
                ELSE IF rc <= 0
                THEN Return(c1, Res("done", <<>>, FALSE), rd)
                ELSE \E x \in ScanLine([c1 EXCEPT !.buf_len = rc]) :
                        Return(x.ctx, x.res, rd)
    /\ UNCHANGED <<ud, iounit, remote, fids, faults>>
    /\ UNCHANGED <<idirVars, op, st>>

\* l_ixp_iread_gc: the finalizer of the userdata, run once by the collector
\* when the iterator is unreachable.
l_ixp_iread_gc ==
    /\ ud \in {"live", "orphan"} /\ pc \in {"idle"}
    /\ ud' = "collected"
    /\ fids' = ixp_close_fids(fids, ctx.fid, "iread")
    /\ faults' = faults \cup ixp_close_faults(fids, ctx.fid, "iread")
    /\ UNCHANGED <<ctx, iounit, pc, L, cur, sig, remote, wire, out>>
    /\ UNCHANGED <<idirVars, op, st>>

----------------------------------------------------------------------------
(* Directory iterator: l_ixp_idir *)

\* An encoded status record: the name it carries and the bytes it takes on
\* the wire (the 2-byte size field and what it declares).
MinStat == 2
Stats == [name : {"f", "g"}, size : MinStat..MaxStat]

RECURSIVE Extent(_)
Extent(recs) == IF recs = <<>> THEN 0 ELSE Head(recs).size + Extent(Tail(recs))

\* All sequences of records that start within n bytes
RECURSIVE StatSeqs(_)
StatSeqs(n) ==
    IF n <= 0 THEN {<<>>}
    ELSE {<<>>} \cup
         UNION {{<<r>> \o t : t \in StatSeqs(n - r.size)} : r \in Stats}

\* One result of a read of a directory: rc bytes holding the records recs,
\* of which the last may be cut short.
DirData(recs, rc) == [rc |-> rc, recs |-> recs]
DirEOF == [rc |-> 0, recs |-> <<>>]
DirERR == [rc |-> -1, recs |-> <<>>]

Whole(r) == r.rc = Extent(r.recs)

\* What a read of up to count bytes of a directory can return after the
\* results w: records of which each starts before the end of the read.
DirReadResults(w, count) ==
    IF dremote.scripted
    THEN IF Len(w) < Len(dremote.script)
         THEN {dremote.script[Len(w) + 1]} ELSE {}
    ELSE IF Len(w) < MaxDirReads
    THEN {r \in [rc : 1..count, recs : StatSeqs(count) \ {<<>>}] :
             /\ r.rc <= Extent(r.recs)
             /\ r.rc > Extent(SubSeq(r.recs, 1, Len(r.recs) - 1))}
         \cup {DirEOF, DirERR}
    ELSE {}

\* IxpMsg: the records in the buffer, the cursor and the end, in bytes
ZeroMsg == [data |-> <<>>, pos |-> 0, end |-> 0]

ZeroDctx == [fid |-> "NULL", buf |-> "NULL", m |-> ZeroMsg]

\* ixp_message (buf, rc, MsgUnpack)
ixp_message(recs, rc) == [data |-> recs, pos |-> 0, end |-> rc]

\* The record of data that starts at byte offset pos, if one does
RECURSIVE StatAt(_, _)
StatAt(recs, pos) ==
    IF recs = <<>> \/ pos < 0 THEN <<>>
    ELSE IF pos = 0 THEN <<Head(recs)>>
    ELSE StatAt(Tail(recs), pos - Head(recs).size)

\* ixp_pstat (&m, &stat): unpacks the record at the cursor and advances the
\* cursor past it. It returns nothing: a field that would lie beyond m.end
\* is left as it was in stat (here: whole = FALSE), the cursor advancing
\* all the same.
ixp_pstat(m) ==
    LET at == StatAt(m.data, m.pos)
        size == IF at = <<>> THEN MinStat ELSE at[1].size
    IN  [m |-> [m EXCEPT !.pos = @ + size],
         stat |-> [name |-> IF at = <<>> THEN "?" ELSE at[1].name,
                   whole |-> at # <<>> /\ m.pos + size <= m.end]]

\* l_ixp_idir
l_ixp_idir ==
    /\ dud = "none"
    /\ \E ok \in BOOLEAN, mallocOk \in BOOLEAN :
         IF ~ok
         THEN \* pusherror "count not open p9 file"
              /\ dctx' = ZeroDctx
              /\ dud' = "orphan"
              /\ fids' = ixp_open_fids(fids, "idir", FALSE)
              /\ UNCHANGED faults
         ELSE IF ~mallocOk
         THEN \* ixp_close (ctx->fid); ctx->fid = NULL; pusherror
              /\ dctx' = ZeroDctx
              /\ dud' = "orphan"
              /\ fids' = ixp_close_fids(ixp_open_fids(fids, "idir", TRUE),
                                        "fid", "idir")
              /\ UNCHANGED faults
         ELSE /\ dctx' = [ZeroDctx EXCEPT !.fid = "fid", !.buf = "buf"]
              /\ dud' = "live"
              /\ fids' = ixp_open_fids(fids, "idir", TRUE)
              /\ UNCHANGED faults
    /\ UNCHANGED <<dremote, dwire, dout>>
    /\ UNCHANGED <<ireadVars, op, st>>

\* (the refill test with > for >=)
NeedRefill_gt(m) == m.pos > m.end

\* The refill test of l_ixp_idir_iter
NeedRefill(m) == m.pos >= m.end

\* l_ixp_idir_iter: the whole call; it blocks while the handle has nothing
\* to return.
l_ixp_idir_iter ==
    /\ dud = "live" /\ pc = "idle"
    /\ IF NeedRefill(dctx.m)
       THEN \E r \in DirReadResults(dwire, DirIoUnit) :
               LET rd == Len(dwire) + 1
               IN  /\ dwire' = Append(dwire, r)
                   /\ IF r.rc <= 0
                      THEN /\ dout' = Append(dout, DRes("done", "", TRUE, rd))
                           /\ dctx' = dctx
                      ELSE LET m == ixp_message(r.recs, r.rc)
                           IN  IF NeedRefill(m)
                               THEN /\ dout' = Append(dout,
                                                DRes("done", "", TRUE, rd))
                                    /\ dctx' = [dctx EXCEPT !.m = m]
                               ELSE LET d == ixp_pstat(m)
                                    IN  /\ dout' = Append(dout, DRes("stat",
                                               d.stat.name, d.stat.whole, rd))
                                        /\ dctx' = [dctx EXCEPT !.m = d.m]
       ELSE LET d == ixp_pstat(dctx.m)
            IN  /\ dout' = Append(dout,
                               DRes("stat", d.stat.name, d.stat.whole, 0))
                /\ dctx' = [dctx EXCEPT !.m = d.m]
                /\ dwire' = dwire
    /\ UNCHANGED <<dud, dremote, fids, faults>>
    /\ UNCHANGED <<ireadVars, op, st>>

\* l_ixp_idir_gc: the finalizer, run once by the collector
l_ixp_idir_gc ==
    /\ dud \in {"live", "orphan"} /\ pc = "idle"
    /\ dud' = "collected"
    /\ dctx' = [dctx EXCEPT !.buf = IF @ = "NULL" THEN "NULL" ELSE "freed"]
    /\ fids' = ixp_close_fids(fids, dctx.fid, "idir")
    /\ faults' = faults \cup ixp_close_faults(fids, dctx.fid, "idir")
    /\ UNCHANGED <<dremote, dwire, dout>>
    /\ UNCHANGED <<ireadVars, op, st>>

----------------------------------------------------------------------------
(* Status projection: pushstat, build_modestr, setrwx *)

\* stat->mode: the P9_DMDIR bit (0x80000000) and the bits below it
Modes == [dmdir : BOOLEAN, low : 0..MaxMode]

\* The C string that starts at buf[0]
RECURSIVE CStr(_)
CStr(buf) ==
    IF buf = <<>> \/ Head(buf) = NUL THEN <<>>
    ELSE <<Head(buf)>> \o CStr(Tail(buf))

\* Writes the characters cs into buf from offset at
Poke(buf, at, cs) ==
    [i \in 1..Len(buf) |->
        IF i > at /\ i <= at + Len(cs) THEN cs[i - at] ELSE buf[i]]

\* (the table of setrwx with two entries exchanged)
modes_swapped ==
    << <<"-","-","-">>, <<"-","-","x">>, <<"-","w","-">>,
       <<"r","-","-">>, <<"-","w","x">>, <<"r","-","x">>,
       <<"r","w","-">>, <<"r","w","x">> >>

\* static char *modes[] of setrwx, modes[m] being element m + 1
modes ==
    << <<"-","-","-">>, <<"-","-","x">>, <<"-","w","-">>,
       <<"-","w","x">>, <<"r","-","-">>, <<"r","-","x">>,
       <<"r","w","-">>, <<"r","w","x">> >>

\* setrwx (m, &buf[at]): strncpy (s, modes[m], 3)
setrwx(m, buf, at) == Poke(buf, at, modes[m + 1])

\* build_modestr (buf, stat)
build_modestr(buf, mode) ==
    LET b0 == Poke(buf, 0, <<IF mode.dmdir THEN "d" ELSE "-">>)
        b1 == Poke(b0, 1, <<"-">>)
        b2 == setrwx((mode.low \div 64) % 8, b1, 2)
        b5 == setrwx((mode.low \div 8) % 8, b2, 5)
        b8 == setrwx(mode.low % 8, b5, 8)
    IN  Poke(b8, 11, <<NUL>>)

\* build_timestr (buf, stat): the 24 characters of ctime_r without the
\* newline, and the NUL
build_timestr(buf) == Poke(buf, 0, [i \in 1..24 |-> "t"] \o <<NUL>>)

\* No stat call has run: the static buffer is zeroed
InitSt == [pc |-> "ret", ret |-> "none",
           mode |-> [dmdir |-> FALSE, low |-> 0],
           buf |-> [i \in 1..StatBufSize |-> NUL], modestr |-> <<>>]

\* l_ixp_stat, up to its call of pushstat: ixp_stat returns NULL or a
\* stat of any mode
l_ixp_stat ==
    /\ st.pc = "ret"
    /\ \E ok \in BOOLEAN, mode \in Modes :
         st' = IF ok
               THEN [st EXCEPT !.pc = "pushstat", !.ret = "none",
                               !.mode = mode]
               ELSE [st EXCEPT !.ret = "error"]
    /\ UNCHANGED <<ireadVars, idirVars, fids, faults, op>>

\* pushstat (L, stat): the modestr field is the C string build_modestr
\* left in buf, which build_timestr then overwrites
pushstat ==
    /\ st.pc = "pushstat"
    /\ LET b == build_modestr(st.buf, st.mode)
       IN  st' = [st EXCEPT !.pc = "pushed", !.buf = build_timestr(b),
                           !.modestr = CStr(b)]
    /\ UNCHANGED <<ireadVars, idirVars, fids, faults, op>>

\* l_ixp_stat after pushstat: ixp_freestat (stat); return rc. The table
\* goes to the caller and the stat is freed.
l_ixp_stat_return ==
    /\ st.pc = "pushed"
    /\ st' = [st EXCEPT !.pc = "ret", !.ret = "table",
                        !.mode = InitSt.mode, !.modestr = <<>>]
    /\ UNCHANGED <<ireadVars, idirVars, fids, faults, op>>

----------------------------------------------------------------------------
(* One-shot operations: l_ixp_write, l_ixp_create, l_ixp_read *)

\* No operation has run. Of a call: its name, its position ("write_data",
\* "ixp_read" while it waits for the transport, "ret" once it has
\* returned), its fid, what it returned and, of an error, why; left, ofs
\* and data_len of write_data, whether write_data has returned and what
\* (rvset, rv), what its last ixp_write returned (rc), the writes the
\* transport accepted (sent: offset and count of each) and the parity of
\* the number of ixp_write calls (par); buf_ofs, buf_size and buf_left of
\* l_ixp_read, and whether its last ixp_read returned 0 (eof).
NoOp == [name |-> "none", pc |-> "ret", fid |-> "NULL", ret |-> "none",
         why |-> "", data_len |-> 0, left |-> 0, ofs |-> 0,
         rvset |-> FALSE, rv |-> 0, rc |-> 0, sent |-> <<>>, par |-> 0,
         buf_ofs |-> 0, buf_size |-> 0, buf_left |-> 0, eof |-> FALSE]

\* ENXIO of errno.h
ENXIO == 6

\* The call returns ret after closing its fid (close = TRUE) or without
OpReturn(o, ret, close) ==
    /\ op' = [o EXCEPT !.pc = "ret", !.ret = ret]
    /\ fids' = IF close THEN ixp_close_fids(fids, o.fid, "op") ELSE fids
    /\ faults' = IF close
                 THEN faults \cup ixp_close_faults(fids, o.fid, "op")
                 ELSE faults

\* The call goes on to wait for the transport at position at
OpWait(o, at) ==
    /\ op' = [o EXCEPT !.pc = at]
    /\ UNCHANGED faults

\* No call of the binding is in flight
Idle == pc = "idle" /\ op.pc = "ret"

\* l_ixp_write, up to the first ixp_write of write_data
l_ixp_write ==
    /\ Idle
    /\ \E ok \in BOOLEAN, data_len \in 0..MaxData :
         LET o == [NoOp EXCEPT !.name = "write", !.fid = ixp_open(ok),
                               !.data_len = data_len, !.left = data_len]
             f == ixp_open_fids(fids, "op", ok)
         IN  IF ~ok
             THEN /\ op' = [o EXCEPT !.ret = "error", !.why = "open"]
                  /\ fids' = f
                  /\ UNCHANGED faults
             ELSE IF o.left = 0
             THEN \* write_data returns data_len at once
                  /\ op' = [o EXCEPT !.ret = "ok", !.rvset = TRUE,
                                    !.rv = data_len]
                  /\ fids' = ixp_close_fids(f, o.fid, "op")
                  /\ UNCHANGED faults
             ELSE /\ fids' = f
                  /\ OpWait(o, "write_data")
    /\ UNCHANGED <<ireadVars, idirVars, st>>

\* l_ixp_create, up to the first ixp_write of write_data; dir: the file
\* created is a directory (fid->qid.type & P9_DMDIR)
l_ixp_create ==
    /\ Idle
    /\ \E ok \in BOOLEAN, data_len \in 0..MaxData, dir \in BOOLEAN :
         LET o == [NoOp EXCEPT !.name = "create", !.fid = ixp_open(ok),
                               !.data_len = data_len, !.left = data_len]
             f == ixp_open_fids(fids, "op", ok)
         IN  IF ~ok
             THEN /\ op' = [o EXCEPT !.ret = "error", !.why = "open"]
                  /\ fids' = f
                  /\ UNCHANGED faults
             ELSE IF data_len > 0 /\ ~dir
             THEN /\ fids' = f
                  /\ OpWait(o, "write_data")
             ELSE /\ op' = [o EXCEPT !.ret = "ok"]
                  /\ fids' = ixp_close_fids(f, o.fid, "op")
                  /\ UNCHANGED faults
    /\ UNCHANGED <<ireadVars, idirVars, st>>

\* (the loop of write_data without ofs += rc)
WriteStep_no_ofs(o, rc) ==
    LET o0 == [o EXCEPT !.par = 1 - @, !.rc = rc]
    IN  IF rc < 0 THEN [o0 EXCEPT !.rvset = TRUE, !.rv = rc]
        ELSE IF rc > o.left THEN [o0 EXCEPT !.rvset = TRUE, !.rv = -ENXIO]
        ELSE LET o1 == [o0 EXCEPT !.left = @ - rc,
                           !.sent = IF rc > 0
                                    THEN Append(@, [ofs |-> o.ofs, n |-> rc])
                                    ELSE @]
             IN  IF o1.left = 0
                 THEN [o1 EXCEPT !.rvset = TRUE, !.rv = o.data_len]
                 ELSE o1

\* One turn of the loop of write_data, the ixp_write of which returns rc:
\* the locals after it, rv being set if write_data returns (data_len, a
\* size_t, is returned as an int: the lengths here are all below INT_MAX)
WriteStep(o, rc) ==
    LET o0 == [o EXCEPT !.par = 1 - @, !.rc = rc]
    IN  IF rc < 0 THEN [o0 EXCEPT !.rvset = TRUE, !.rv = rc]
        ELSE IF rc > o.left THEN [o0 EXCEPT !.rvset = TRUE, !.rv = -ENXIO]
        ELSE LET o1 == [o0 EXCEPT !.left = @ - rc, !.ofs = @ + rc,
                           !.sent = IF rc > 0
                                    THEN Append(@, [ofs |-> o.ofs, n |-> rc])
                                    ELSE @]
             IN  IF o1.left = 0
                 THEN [o1 EXCEPT !.rvset = TRUE, !.rv = o.data_len]
                 ELSE o1

\* write_data: one ixp_write returns rc, and the caller's code after
\* write_data if the loop ends. The transport accepts at most left bytes
\* or misreports one more.
write_data ==
    /\ op.pc = "write_data"
    /\ \E rc \in -1..(op.left + 1) :
         LET o == WriteStep(op, rc)
         IN  IF ~o.rvset
             THEN /\ op' = o
                  /\ UNCHANGED <<fids, faults>>
             ELSE IF o.rv < 0
             THEN \* the caller closes and fails
                  OpReturn([o EXCEPT !.why = "write"], "error", TRUE)
             ELSE OpReturn(o, "ok", TRUE)
    /\ UNCHANGED <<ireadVars, idirVars, st>>

\* l_ixp_read, up to its first ixp_read
l_ixp_read ==
    /\ Idle
    /\ \E ok \in BOOLEAN, mallocOk \in BOOLEAN, io \in 1..OpIoUnit :
         LET o == [NoOp EXCEPT !.name = "read", !.fid = ixp_open(ok),
                               !.buf_ofs = 0, !.buf_size = io,
                               !.buf_left = io]
             f == ixp_open_fids(fids, "op", ok)
         IN  IF ~ok
             THEN /\ op' = [NoOp EXCEPT !.name = "read", !.ret = "error",
                                        !.why = "open"]
                  /\ fids' = f
                  /\ UNCHANGED faults
             ELSE IF ~mallocOk
             THEN /\ op' = [NoOp EXCEPT !.name = "read", !.fid = "fid",
                                        !.ret = "error", !.why = "malloc"]
                  /\ fids' = ixp_close_fids(f, "fid", "op")
                  /\ UNCHANGED faults
             ELSE /\ fids' = f
                  /\ OpWait(o, "ixp_read")
    /\ UNCHANGED <<ireadVars, idirVars, st>>

\* l_ixp_read: one ixp_read of up to buf_left bytes returns rc, and the
\* code up to the next ixp_read or the return
l_ixp_read_loop ==
    /\ op.pc = "ixp_read"
    /\ \E rc \in -1..op.buf_left, reallocOk \in BOOLEAN :
         IF rc = 0
         THEN \* break; ixp_close; lua_pushstring
              OpReturn([op EXCEPT !.eof = TRUE], "data", TRUE)
         ELSE IF rc < 0
         THEN OpReturn([op EXCEPT !.why = "read"], "error", TRUE)
         ELSE LET o == [op EXCEPT !.buf_ofs = @ + rc, !.buf_left = @ - rc]
              IN  IF o.buf_ofs >= o.buf_size
                  THEN \* return pusherror "internal error while reading"
                       OpReturn([o EXCEPT !.why = "internal"], "error", FALSE)
                  ELSE IF o.buf_size >= ReadCeiling
                  THEN OpReturn(o, "data", TRUE)
                  ELSE IF ~reallocOk
                  THEN OpReturn([o EXCEPT !.why = "realloc"], "error", TRUE)
                  ELSE /\ op' = [o EXCEPT !.buf_size = ReadCeiling]
                       /\ UNCHANGED <<fids, faults>>
    /\ UNCHANGED <<ireadVars, idirVars, st>>

----------------------------------------------------------------------------
InitCtx ==
    /\ ctx = ZeroCtx /\ ud = "none" /\ pc = "idle"
    /\ L = <<>> /\ cur = NoCall /\ sig = NoSig /\ wire = <<>> /\ out = <<>>

\* A line iterator over any remote file
InitIread == InitCtx /\ iounit = IoUnit /\ remote = AnyFile

\* A line iterator over the file of the reference scenario, whose iounit
\* holds its longest read
InitFixture ==
    /\ InitCtx
    /\ remote = [scripted |-> TRUE, script |-> Fixture]
    /\ iounit \in {Len(Fixture[1].data), Len(Fixture[1].data) + 1}

InitDctx == dctx = ZeroDctx /\ dud = "none" /\ dwire = <<>> /\ dout = <<>>

\* A directory iterator over any remote directory
InitIdir == InitDctx /\ dremote = AnyFile

InitRest ==
    /\ fids = [w \in Owners |-> "none"] /\ faults = {}
    /\ op = NoOp /\ st = InitSt

Init == InitIread /\ InitIdir /\ InitRest

NextIread ==
    \/ l_ixp_iread
    \/ l_ixp_iread_iter
    \/ l_ixp_iread_catcher
    \/ ixp_read_returns
    \/ l_ixp_iread_gc

Next == NextIread

Spec == Init /\ [][Next]_vars

\* The reference scenario: next() without a timeout on the scripted handle
NextFixture ==
    \/ l_ixp_iread
    \/ l_ixp_iread_iter_plain
    \/ ixp_read_returns
    \/ l_ixp_iread_gc

FixtureInit == InitFixture /\ InitIdir /\ InitRest

SpecFixture == FixtureInit /\ [][NextFixture]_vars

\* The timeout protocol: the line iterator, with every argument list, in
\* a process whose SIGALRM handler is the default one or the
\* application's, over a file whose reads return 4 bytes, a line, and 0
AlarmFile == << Data(<<"a", "a", "a", "a">>), Data(<<"a", NL>>), EOF >>

AlarmInit ==
    /\ ctx = ZeroCtx /\ ud = "none" /\ pc = "idle"
    /\ L = <<>> /\ cur = NoCall /\ wire = <<>> /\ out = <<>>
    /\ sig \in {[NoSig EXCEPT !.handler = h] : h \in {"SIG_DFL", "app"}}
    /\ iounit = IoUnit
    /\ remote = [scripted |-> TRUE, script |-> AlarmFile]
    /\ InitIdir /\ InitRest

SpecAlarm == AlarmInit /\ [][NextIread]_vars

\* The directory iterator
NextIdir ==
    \/ l_ixp_idir
    \/ l_ixp_idir_iter
    \/ l_ixp_idir_gc

SpecIdir == Init /\ [][NextIdir]_vars

\* The status projection
NextMode ==
    \/ l_ixp_stat
    \/ pushstat
    \/ l_ixp_stat_return

SpecMode == Init /\ [][NextMode]_vars

\* The one-shot operations
NextOps ==
    \/ l_ixp_write
    \/ l_ixp_create
    \/ write_data
    \/ l_ixp_read
    \/ l_ixp_read_loop

SpecOps == Init /\ [][NextOps]_vars

\* The same, a call that has started going on: the loop of write_data
\* keeps turning as long as it has not returned
SpecOpsFair == SpecOps /\ WF_vars(write_data) /\ WF_vars(l_ixp_read_loop)

\* Everything that owns a handle: both iterators (the line iterator
\* called without timeouts), over a short file and a short directory, and
\* the one-shot operations
ShortFile == << Data(<<"a", NL>>), EOF >>
ShortDir  == << DirData(<<[name |-> "f", size |-> MinStat]>>, MinStat), DirEOF >>

InitHandles ==
    /\ InitCtx /\ iounit = IoUnit
    /\ remote = [scripted |-> TRUE, script |-> ShortFile]
    /\ InitDctx
    /\ dremote = [scripted |-> TRUE, script |-> ShortDir]
    /\ InitRest

NextHandles == NextFixture \/ NextIdir \/ NextOps

SpecHandles == InitHandles /\ [][NextHandles]_vars

----------------------------------------------------------------------------
(* Claims about the line iterator *)

NotError(e) == e.t # "error"

\* The results of the calls that did not fail to allocate the buffer
Results == SelectSeq(out, NotError)

\* The bytes that a sequence of read results delivered
RECURSIVE Bytes(_)
Bytes(w) == IF w = <<>> THEN <<>> ELSE Head(w).data \o Bytes(Tail(w))

\* The lines of a sequence of results, each followed by the newline that
\* was stripped from it
RECURSIVE Rebuilt(_)
Rebuilt(o) ==
    IF o = <<>> THEN <<>>
    ELSE (IF Head(o).t = "line"
          THEN Head(o).s \o (IF Head(o).nl THEN <<NL>> ELSE <<>>)
          ELSE <<>>) \o Rebuilt(Tail(o))

Expected == << Res("line", <<"a">>, TRUE), Res("line", <<"b", "b">>, TRUE),
               Res("line", <<"c", "c", "c">>, FALSE), Res("done", <<>>, FALSE) >>

\* C1: on the handle whose reads return "a\nbb\n", "ccc", 0, the calls of
\* next() without a timeout return "a", "bb", "ccc" and then end of
\* iteration, nothing of an earlier read showing in a later line.
C1_ReferenceLines ==
    \A k \in 1..Len(Results) :
        k <= Len(Expected) =>
            /\ Results[k].t = Expected[k].t
            /\ Results[k].s = Expected[k].s

\* C2: in a call next(2, f) where f returns 5, once the alarm has expired
\* the callback has run and the deadline armed after it is 5; and the call
\* returns after that only with a result of the read.
C2_ExtensionDeadline ==
    [][ LET ext(c) == /\ Len(c.args) = 2
                      /\ c.args[1] = LNum(2)
                      /\ c.args[2].t = "function"
                      /\ c.args[2].v = LNum(5)
        IN  /\ (pc' = "ixp_read" /\ ext(cur') /\ cur'.expired >= 1) =>
                    /\ cur'.cbcalls >= 1
                    /\ Len(cur'.armed) >= 2
                    /\ cur'.armed[2] = 5
            /\ (pc = "ixp_read" /\ ext(cur) /\ cur.expired = 1
                    /\ pc' # "ixp_read") =>
                    out'[Len(out')].t \in {"line", "done"}
      ]_vars

\* C3: once the handle has delivered data reads (here: of bytes other than
\* NUL) and then 0 and next() has reported the end, the lines returned,
\* each with its stripped newline put back, are the bytes the handle
\* delivered (no line exceeds the buffer: MaxBytes <= IoUnit).
C3_RoundTrip ==
    \A k \in 1..Len(out) :
        LET rd == out[k].rd
        IN  ( /\ out[k].t = "done"
              /\ rd > 0
              /\ wire[rd].rc = 0
              /\ \A i \in 1..(rd - 1) : wire[i].rc > 0
              /\ \A i \in 1..Len(Bytes(wire)) : Bytes(wire)[i] # NUL
              /\ \A j \in 1..k : out[j].t # "error" )
            => Rebuilt(SubSeq(out, 1, k - 1)) = Bytes(SubSeq(wire, 1, rd - 1))

\* C9: a call whose refill read failed returns an error, and a call
\* reports the end only after a read of 0 bytes.
C9_ReadErrorReported ==
    \A k \in 1..Len(out) :
        LET rd == out[k].rd
        IN  /\ (rd > 0 /\ wire[rd].rc < 0) => out[k].t = "error"
            /\ out[k].t = "done" => (rd > 0 /\ wire[rd].rc = 0)

\* C10: a call returns "timeout" only if it asked for a positive timeout
\* and the alarm expired with no new deadline armed; a refill read that
\* returned n > 0 bytes never gives "timeout", its bytes become the line
\* data of the buffer.
C10_TimeoutOnlyOnExpiry ==
    [][ (pc = "ixp_read" /\ pc' # "ixp_read") =>
            LET r  == out'[Len(out')]
                rc == wire'[r.rd].rc
            IN  /\ r.t = "timeout" =>
                      (cur.timeout > 0 /\ cur.expired > 0 /\ sig.alarm = 0)
                /\ rc > 0 =>
                      (r.t \in {"line", "fault"} /\ r.t # "timeout")
      ]_vars

\* The offset in a region of its first newline, counted from 1 (0: none)
RECURSIVE FirstNL(_)
FirstNL(region) ==
    IF region = <<>> THEN 0
    ELSE IF Head(region) = NL THEN 1
    ELSE IF FirstNL(Tail(region)) = 0 THEN 0
    ELSE 1 + FirstNL(Tail(region))

\* C11: a call that returns "timeout" leaves the reader usable: the handle
\* is open, the offsets are unchanged and valid, the buffer is empty so
\* that the next call refills, and the read of that call delivered no byte
\* that is now lost.
C11_ReaderSurvivesTimeout ==
    [][ ( pc = "ixp_read" /\ pc' = "idle"
          /\ out'[Len(out')].t = "timeout" ) =>
            /\ fids'["iread"] = "open"
            /\ ctx'.buf_pos = ctx.buf_pos /\ ctx'.buf_len = ctx.buf_len
            /\ 0 <= ctx'.buf_pos
            /\ ctx'.buf_pos + ctx'.buf_len <= ctx'.buf_size
            /\ ctx'.buf_len = 0
            /\ wire'[Len(wire')].data = <<>>
      ]_vars

\* C13: 0 <= buf_pos, 0 <= buf_len and buf_pos + buf_len <= buf_size, after
\* any calls on any read results.
C13_BufferInvariant ==
    /\ 0 <= ctx.buf_pos
    /\ 0 <= ctx.buf_len
    /\ ctx.buf_pos + ctx.buf_len <= ctx.buf_size

\* C14: a call that returns a line returns the bytes of the unconsumed
\* region up to its first newline and advances past that newline, or
\* returns the whole region and marks the buffer empty if it has none; no
\* call reads beyond the region. The region is [buf_pos, buf_pos+buf_len)
\* of a call that finds data buffered, and the bytes just read otherwise
\* (here: on handles that deliver no NUL byte).
C14_ScanConfined ==
    [][ ( Len(out') = Len(out) + 1 /\ out'[Len(out')].t \in {"line", "fault"}
          /\ (\A i \in 1..Len(Bytes(wire')) : Bytes(wire')[i] # NUL)
          /\ (pc = "idle" => /\ 0 <= ctx.buf_pos /\ 0 < ctx.buf_len
                              /\ ctx.buf_pos + ctx.buf_len <= ctx.buf_size) ) =>
            LET r      == out'[Len(out')]
                start  == IF pc = "idle" THEN ctx.buf_pos ELSE 0
                region == IF pc = "idle"
                          THEN SubSeq(ctx.buf, ctx.buf_pos + 1,
                                      ctx.buf_pos + ctx.buf_len)
                          ELSE wire'[Len(wire')].data
                k      == FirstNL(region)
            IN  /\ r.t = "line"
                /\ IF k > 0
                   THEN /\ r.s = SubSeq(region, 1, k - 1)
                        /\ ctx'.buf_pos = start + k
                        /\ ctx'.buf_len = Len(region) - k
                   ELSE /\ r.s = region
                        /\ ctx'.buf_len = 0
      ]_vars

\* The call in flight was given a callback that declines (returns 0 or no
\* value), or none
Declines(args) ==
    lua_isfunction(args, 2) => args[2].v \in {LNum(0), LNil}

\* C15: the callback is called only on the expiry of the alarm of a call
\* with a positive timeout and a callback; when the callback declines or
\* there is none, the expiry arms no new alarm, the callback is called at
\* most once in the call, and the call then returns "timeout".
C15_CallbackDeclines ==
    [][ /\ cur'.cbcalls > cur.cbcalls =>
              /\ cur.timeout > 0 /\ lua_isfunction(cur.args, 2)
              /\ sig.alarm > 0 /\ pc = "ixp_read"
        /\ (cur'.expired > cur.expired /\ Declines(cur.args)) =>
              /\ sig'.alarm = 0
              /\ cur'.cbcalls <= 1
        /\ ( pc = "ixp_read" /\ pc' # "ixp_read" /\ Declines(cur.args)
             /\ cur.expired > 0 ) =>
              out'[Len(out')].t = "timeout"
      ]_vars

\* C17: a call that returns leaves no alarm pending, the global pointer
\* NULL and the SIGALRM handler that was installed before the call; a call
\* with no timeout never changes the alarm, the handler or the pointer.
C17_TimeoutScoped ==
    [][ /\ pc' = "idle" =>
              /\ sig'.alarm = 0 /\ sig'.lua_state = "NULL"
              /\ sig'.handler # "l_ixp_iread_catcher"
        /\ (pc = "idle" /\ pc' = "ixp_read" /\ cur'.timeout > 0) =>
              cur'.sact2 = sig.handler
        /\ (pc = "ixp_read" /\ pc' = "idle" /\ cur.timeout > 0) =>
              sig'.handler = cur.sact2
        /\ (pc = "idle" /\ pc' = "idle") => sig' = sig
        /\ (pc' = "ixp_read" /\ cur'.timeout = 0) => sig' = sig
        /\ (pc = "ixp_read" /\ cur.timeout = 0) => sig' = sig
      ]_vars

\* A call with a timeout, whose alarm expired and was armed again by the
\* catcher, has returned in a process with a handler of its own
C17_Witness ==
    /\ pc = "idle" /\ out # <<>> /\ out[Len(out)].rd > 0
    /\ cur.timeout > 0 /\ cur.expired > 0 /\ Len(cur.armed) > 1
    /\ sig = [alarm |-> 0, handler |-> "app", lua_state |-> "NULL"]

----------------------------------------------------------------------------
(* Claims about the directory iterator *)

\* The names of the records of a sequence of read results, in wire order
RECURSIVE StatNames(_)
StatNames(w) ==
    IF w = <<>> THEN <<>>
    ELSE [i \in 1..Len(Head(w).recs) |-> Head(w).recs[i].name]
         \o StatNames(Tail(w))

\* The reads made by the first k calls
RECURSIVE ReadsBy(_)
ReadsBy(k) ==
    IF k = 0 THEN 0
    ELSE IF dout[k].rd > 0 THEN dout[k].rd ELSE ReadsBy(k - 1)

AllWhole(w) == \A i \in 1..Len(w) : w[i].rc > 0 /\ Whole(w[i])

\* C4: while the reads return whole records, the k-th call returns the
\* k-th record of the wire; and when the read after N whole records
\* returns 0 bytes, the calls before it have returned exactly the N
\* records and this one reports the end.
C4_WholeRecords ==
    \A k \in 1..Len(dout) :
        LET R == SubSeq(dwire, 1, ReadsBy(k))
            B == SubSeq(dwire, 1, ReadsBy(k) - 1)
        IN  /\ AllWhole(R) =>
                  /\ dout[k].t = "stat" /\ dout[k].whole
                  /\ k <= Len(StatNames(R))
                  /\ dout[k].name = StatNames(R)[k]
            /\ (R # <<>> /\ AllWhole(B) /\ R[Len(R)].rc = 0) =>
                  /\ dout[k].t = "done"
                  /\ k = Len(StatNames(B)) + 1

\* A directory of two or more records read to its end
C4_Witness ==
    \E k \in 3..Len(dout) :
        /\ dout[k].t = "done" /\ dout[k].rd = Len(dwire)
        /\ dwire[Len(dwire)].rc = 0
        /\ AllWhole(SubSeq(dwire, 1, Len(dwire) - 1))

\* C5: no call returns a status record built from a record that the read
\* cut short (such a call fails instead).
C5_TruncatedRejected ==
    \A k \in 1..Len(dout) : dout[k].t = "stat" => dout[k].whole

\* C16: after every call m.pos <= m.end <= iounit; a call reads only when
\* m.pos >= m.end, and the decoding context it then sets up holds exactly
\* the bytes just read.
C16_CursorInvariant ==
    [][ /\ dctx'.m.pos <= dctx'.m.end
        /\ dctx'.m.end <= DirIoUnit
        /\ Len(dwire') > Len(dwire) =>
              /\ dctx.m.pos >= dctx.m.end
              /\ dwire'[Len(dwire')].rc > 0 =>
                    /\ dctx'.m.data = dwire'[Len(dwire')].recs
                    /\ dctx'.m.end = dwire'[Len(dwire')].rc
      ]_vars

----------------------------------------------------------------------------
(* Claims about the status projection *)

Mode0755Dir  == [dmdir |-> TRUE, low |-> 493]
Mode0644File == [dmdir |-> FALSE, low |-> 420]

\* C6, as stated: the modestr of every mode has exactly 10 characters; it
\* is "drwxr-xr-x" for mode 0755 with the directory bit and "-rw-r--r--"
\* for mode 0644 without it.
C6_TenCharacters ==
    st.pc = "pushed" =>
        /\ Len(st.modestr) = 10
        /\ st.mode = Mode0755Dir =>
              st.modestr = <<"d","r","w","x","r","-","x","r","-","x">>
        /\ st.mode = Mode0644File =>
              st.modestr = <<"-","r","w","-","r","-","-","r","-","-">>

\* C6, amended: the modestr of every mode has exactly 11 characters, the
\* second of them a fixed "-"; it is "d-rwxr-xr-x" for mode 0755 with the
\* directory bit and "--rw-r--r--" for mode 0644 without it.
C6_ElevenCharacters ==
    st.pc = "pushed" =>
        /\ Len(st.modestr) = 11
        /\ st.modestr[1] = (IF st.mode.dmdir THEN "d" ELSE "-")
        /\ st.modestr[2] = "-"
        /\ st.mode = Mode0755Dir =>
              st.modestr = <<"d","-","r","w","x","r","-","x","r","-","x">>
        /\ st.mode = Mode0644File =>
              st.modestr = <<"-","-","r","w","-","r","-","-","r","-","-">>

\* pushstat has projected a directory of mode 0755
C6_Witness ==
    /\ st.pc = "pushed" /\ st.mode = Mode0755Dir
    /\ st.modestr = <<"d","-","r","w","x","r","-","x","r","-","x">>

----------------------------------------------------------------------------
(* Claims about the handles *)

\* C7: the finalizer of a reader never hands the transport's close a null
\* handle or a handle that is already closed.
C7_TeardownSafe ==
    \A who \in {"iread", "idir"} :
        /\ <<"ixp_close(NULL)", who>> \notin faults
        /\ <<"ixp_close twice", who>> \notin faults

\* C8: a one-shot operation that has returned, and a reader that has been
\* released, leaves no handle open, and no handle is closed twice.
C8_ClosedExactlyOnce ==
    /\ op.pc = "ret" => fids["op"] # "open"
    /\ ud = "collected" => fids["iread"] # "open"
    /\ dud = "collected" => fids["idir"] # "open"
    /\ \A who \in Owners : <<"ixp_close twice", who>> \notin faults

----------------------------------------------------------------------------
(* Claims about the one-shot operations *)

\* C12: a read of a file that the handle delivers in reads of at most the
\* size asked, with no read, open or allocation failing, returns data, and
\* only once a read has returned 0 (so that all of the content is in it).
C12_WholeFile ==
    ( op.name = "read" /\ op.pc = "ret"
      /\ op.why \notin {"open", "malloc", "read", "realloc"} )
        => (op.ret = "data" /\ op.eof)

\* The sum of the counts of accepted writes
RECURSIVE SumN(_)
SumN(sent) == IF sent = <<>> THEN 0 ELSE Head(sent).n + SumN(Tail(sent))

\* Each accepted write starts where the ones before it ended
Contiguous(sent) ==
    \A i \in 1..Len(sent) : sent[i].ofs = SumN(SubSeq(sent, 1, i - 1))

\* C18: every write starts at the sum of the counts accepted before it;
\* write_data returns data_len only when those counts sum to data_len; it
\* returns a negative value on, and only on, a write that returns a
\* negative count or more than was left, at once.
C18_PartialWrites ==
    [][ /\ Contiguous(op'.sent)
        /\ (op'.rvset /\ op'.rv >= 0) =>
              (op'.rv = op'.data_len /\ SumN(op'.sent) = op'.data_len)
        /\ op.pc = "write_data" =>
              /\ (op'.rc < 0 \/ op'.rc > op.left) =>
                    (op'.rvset /\ op'.rv < 0 /\ op'.sent = op.sent)
              /\ (op'.rvset /\ op'.rv < 0) =>
                    (op'.rc < 0 \/ op'.rc > op.left)
              /\ (op'.rc >= 0 /\ op'.rc <= op.left) =>
                    (op'.ofs = op.ofs + op'.rc /\ op'.left = op.left - op'.rc)
      ]_vars

\* A write of data that the transport accepted in two or more pieces has
\* returned
C18_Witness ==
    /\ op.name = "write" /\ op.pc = "ret" /\ op.ret = "ok"
    /\ op.rvset /\ op.rv = op.data_len /\ Len(op.sent) >= 2

\* C19: write_data, once it runs, returns.
C19_WriteTerminates == (op.pc = "write_data") ~> (op.pc = "ret")

=============================================================================
